---------------------------- MODULE Spec2Model ----------------------------
(***************************************************************************)
(* Model of the payment session correlation engine of the VenePagos SDK    *)
(* (src/index.js, class VenePagosSDK): the registry of active payment      *)
(* windows, the closure poll and the safety timeout of every               *)
(* openPaymentPopup call, the cross-window message listener, the event     *)
(* listeners and teardown.                                                 *)
(*                                                                         *)
(* One action is one task of the browser's event loop (a method call of    *)
(* the embedding page, a timer callback, a message event) or one step of   *)
(* the environment (the user closes a window, a script writes the          *)
(* localStorage slot).  The event loop runs every task to completion, so   *)
(* an action is the whole callback.                                        *)
(*                                                                         *)
(* The callbacks an application registers with on() are modelled as        *)
(* functions that return or throw; one more kind, registered only in       *)
(* SpecReentrant, calls closeAllPaymentWindows.  The product of the states *)
(* of listeners and sessions is large, so the module states several        *)
(* specifications:                                                         *)
(*   Spec             the sessions, their timers, messages and teardown of *)
(*                    an application that registers no listener;           *)
(*   SpecBus          on, off, messages and sessions settled by messages,  *)
(*                    with the message received last observed;             *)
(*   SpecManualClose  sessions that end by their window being closed or by *)
(*                    their deadline, and by nothing else;                 *)
(*   SpecPublish      on, off, messages and destroy with several listeners *)
(*                    and few sessions;                                    *)
(*   SpecIdentifiers  the sessions when _generatePaymentId may return an   *)
(*                    identifier it returned before;                       *)
(*   SpecInstances    two instances of the class in one page;              *)
(*   SpecReentrant    messages with a listener that calls                  *)
(*                    closeAllPaymentWindows.                              *)
(***************************************************************************)
EXTENDS Integers, Sequences, FiniteSets

(***************************************************************************)
(* Bounds of the model.                                                    *)
(***************************************************************************)
\* openPaymentPopup calls made on the engine
MaxCalls == 2
\* entries the eventListeners array may hold in the specifications of the
\* sessions, and in the specification of on, off and _emitEvent
MaxListeners == 1
MaxSubscriptions == 2
\* openPaymentPopup calls made in the specification of on, off and _emitEvent
MaxSessions == 1

Calls == 1..MaxCalls
\* the instances of VenePagosSDK constructed in the specification of the
\* instances: two, each a symmetric peer of the other
Instances == {1, 2}

(***************************************************************************)
(* Values.                                                                 *)
(***************************************************************************)
\* JavaScript's undefined / null / a missing property
Undefined == "undefined"

\* identifiers _generatePaymentId can return: `payment_${Date.now()}_${random}`,
\* as the pair of the time stamp and the random suffix
PaymentIds == {<<"payment", t, "x">> : t \in Calls}

\* event.origin, as the sequence of the labels of the origin
Origins ==
  { <<"https", "venepagos", "com", "ve">>,
    <<"https", "evil", "example">> }

\* type tags a message can carry (Undefined: no type, or event.data is null)
MessageTypes ==
  {"PAYMENT_SUCCESS", "PAYMENT_ERROR", "PAYMENT_CANCEL", Undefined}

\* the data body of a message: missing, or an object whose fields may be missing
NoData == [present |-> FALSE, reference |-> Undefined, error |-> Undefined]
DataBodies ==
  { NoData,
    [present |-> TRUE, reference |-> Undefined, error |-> Undefined],
    [present |-> TRUE, reference |-> "R1", error |-> "declined"] }

\* values a script can store under 'lastPaymentReference'
StoredValues == {"R7"}

\* names an event listener can be registered under
EventNames == {"success", "error", "cancel"}

\* callbacks handed to on/off: two functions (one of them throws when it is
\* called) and a value that is not a function
Callbacks == {"cbReturns", "cbThrows"}
NotAFunction == "notAFunction"
\* a callback that calls closeAllPaymentWindows of the engine when it is called
ClosesAll == "cbClosesAll"

\* the Error messages the promise of openPaymentPopup is rejected with
ErrPopupBlocked == "No se pudo abrir la ventana emergente"
ErrClosedByUser == "Ventana de pago cerrada por el usuario"
ErrTimeout == "Timeout: El pago excedio el tiempo limite"
ErrCancelled == "Pago cancelado por el usuario"
ErrDefault == "Error en el pago"

VARIABLES
  activePaymentWindows,  \* this.activePaymentWindows: paymentId -> entry
  eventListeners,        \* this.eventListeners: sequence of {event, callback}
  listening,             \* the message handler is registered on window
  promise,               \* call -> the promise openPaymentPopup returned
  settleCalls,           \* call -> invocations of its resolve and reject
  paymentId,             \* call -> const paymentId of its closure
  popup,                 \* call -> const popup of its closure
  checkClosed,           \* call -> its setInterval is registered
  timeoutPending,        \* call -> its setTimeout has not fired yet
  closed,                \* window handle -> window.closed
  lastPaymentReference,  \* localStorage 'lastPaymentReference'
  published,             \* callbacks the task the event loop ran last invoked
  received,              \* the message event it ran last (observed by SpecBus)
  instances,             \* SpecInstances: instance -> the fields of the object
  engineOf               \* SpecInstances: call -> the instance it was made on

vars ==
  << activePaymentWindows, eventListeners, listening, promise, settleCalls,
     paymentId, popup, checkClosed, timeoutPending, closed,
     lastPaymentReference, published, received, instances, engineOf >>

engineVars == << activePaymentWindows, eventListeners, listening >>
callVars == << promise, settleCalls, paymentId, popup, checkClosed, timeoutPending >>
instanceVars == << instances, engineOf >>


(***************************************************************************)
(* Helpers: Map operations, promises, window handles.                      *)
(***************************************************************************)
EmptyMap == [k \in {} |-> Undefined]
MapHas(m, k) == k \in DOMAIN m
MapSet(m, k, v) == [x \in DOMAIN m \cup {k} |-> IF x = k THEN v ELSE m[x]]
MapDelete(m, k) == [x \in DOMAIN m \ {k} |-> m[x]]

\* if (value): a string is truthy unless it is empty; null and undefined are not
Truthy(v) == v # Undefined /\ v # ""

\* the states of the promise a call of openPaymentPopup returns
Idle ==
  [state |-> "idle", status |-> Undefined, reference |-> Undefined,
   closedManually |-> FALSE, data |-> NoData, error |-> Undefined]
Pending == [Idle EXCEPT !.state = "pending"]
\* resolve({success: true, reference, status: 'completed', closedManually | data})
Resolved(reference, closedManually, data) ==
  [state |-> "resolved", status |-> "completed", reference |-> reference,
   closedManually |-> closedManually, data |-> data, error |-> Undefined]
\* reject(new Error(message))
Rejected(message) == [Idle EXCEPT !.state = "rejected", !.error = message]

\* The promises after the resolve or reject of every call in cs was invoked
\* with outcome[c]: only the first invocation settles a promise.
SettledPromises(cs, outcome) ==
  [c \in Calls |->
     IF c \in cs /\ promise[c].state = "pending" THEN outcome[c] ELSE promise[c]]
CountedSettleCalls(cs) ==
  [c \in Calls |-> IF c \in cs THEN settleCalls[c] + 1 ELSE settleCalls[c]]

\* calls of openPaymentPopup made so far, and the call made next
Made == {c \in Calls : promise[c].state # "idle"}
\* window handles window.open has returned so far
Handles == 1..Len(closed)
NoPopup == 0

\* the message event of a task, and the value of a task that is none
MessageEvent(origin, type) == [origin |-> origin, type |-> type]
NoMessage == MessageEvent(<<>>, Undefined)

(***************************************************************************)
(* constructor                                                             *)
(***************************************************************************)
Init ==
  /\ activePaymentWindows = EmptyMap
  /\ eventListeners = <<>>
  /\ listening = TRUE
  /\ promise = [c \in Calls |-> Idle]
  /\ settleCalls = [c \in Calls |-> 0]
  /\ paymentId = [c \in Calls |-> Undefined]
  /\ popup = [c \in Calls |-> NoPopup]
  /\ checkClosed = [c \in Calls |-> FALSE]
  /\ timeoutPending = [c \in Calls |-> FALSE]
  /\ closed = <<>>
  /\ lastPaymentReference = Undefined
  /\ published = <<>>
  /\ received = NoMessage
  /\ instances =
       [i \in Instances |->
          [activePaymentWindows |-> EmptyMap, eventListeners |-> <<>>, listening |-> TRUE]]
  /\ engineOf = [c \in Calls |-> 0]

(***************************************************************************)
(* openPaymentPopup                                                        *)
(***************************************************************************)
\* What window.open(url, 'venepagos_payment', features) can return: null when
\* the browser blocks the popup, the window that already carries the name
\* when one is still open, or a new window.
WindowOpenResults == {NoPopup} \cup {w \in Handles : ~closed[w]} \cup {Len(closed) + 1}

\* _generatePaymentId: `payment_${Date.now()}_${Math.random()...}`, where
\* Date.now() is taken to have advanced since the identifier generated before,
\* so that the identifiers generated differ.  (SpecIdentifiers drops this
\* assumption and draws the identifier from PaymentIds.)
GeneratePaymentId == {<<"payment", Cardinality({c \in Made : popup[c] # NoPopup}) + 1, "x">>}

\* (variant: the blocked call returns without rejecting)
BlockedOutcomeHangs == Pending

\* if (!popup) { reject(new Error('No se pudo abrir ...')); return; }
BlockedOutcome == Rejected(ErrPopupBlocked)

OpenPaymentPopup(c, w, id) ==
  /\ c \notin Made
  /\ \A d \in Calls : d < c => d \in Made
  /\ w \in WindowOpenResults
  /\ published' = <<>>
  /\ IF w = NoPopup
       THEN
         /\ promise' = [promise EXCEPT ![c] = BlockedOutcome]
         /\ settleCalls' = [settleCalls EXCEPT ![c] = @ + 1]
         /\ UNCHANGED << activePaymentWindows, paymentId, popup, checkClosed,
                         timeoutPending, closed >>
       ELSE
         /\ closed' = IF w \in Handles THEN closed ELSE Append(closed, FALSE)
         /\ promise' = [promise EXCEPT ![c] = Pending]
         /\ paymentId' = [paymentId EXCEPT ![c] = id]
         /\ popup' = [popup EXCEPT ![c] = w]
         /\ activePaymentWindows' =
              MapSet(activePaymentWindows, id, [window |-> w, call |-> c])
         /\ checkClosed' = [checkClosed EXCEPT ![c] = TRUE]
         /\ timeoutPending' = [timeoutPending EXCEPT ![c] = TRUE]
         /\ UNCHANGED settleCalls
  /\ UNCHANGED << eventListeners, listening, lastPaymentReference >>

(***************************************************************************)
(* The callback of setInterval(..., 1000): the closure poll of call c.     *)
(***************************************************************************)
\* clearInterval(checkClosed) of call c
ClearInterval(c) == [checkClosed EXCEPT ![c] = FALSE]

\* localStorage.getItem('lastPaymentReference') after removeItem
RemoveItem == Undefined

\* (variants: the timer callbacks without their look-up of the registry)
StillRegisteredAlways(c) == TRUE
StillRegisteredNever(c) == FALSE

\* this.activePaymentWindows.get(paymentId) / .has(paymentId) of call c
StillRegistered(c) == MapHas(activePaymentWindows, paymentId[c])

CheckClosedTick(c) ==
  /\ checkClosed[c]
  /\ published' = <<>>
  /\ IF closed[popup[c]]
       THEN
         /\ checkClosed' = ClearInterval(c)
         /\ IF StillRegistered(c)
              THEN
                /\ activePaymentWindows' = MapDelete(activePaymentWindows, paymentId[c])
                /\ settleCalls' = CountedSettleCalls({c})
                /\ IF Truthy(lastPaymentReference)
                     THEN
                       /\ lastPaymentReference' = RemoveItem
                       /\ promise' =
                            SettledPromises({c},
                              [d \in Calls |-> Resolved(lastPaymentReference, TRUE, NoData)])
                     ELSE
                       /\ promise' =
                            SettledPromises({c}, [d \in Calls |-> Rejected(ErrClosedByUser)])
                       /\ UNCHANGED lastPaymentReference
              ELSE UNCHANGED << activePaymentWindows, settleCalls, promise,
                                lastPaymentReference >>
       ELSE UNCHANGED << checkClosed, activePaymentWindows, settleCalls, promise,
                         lastPaymentReference >>
  /\ UNCHANGED << eventListeners, listening, paymentId, popup, timeoutPending,
                  closed >>

(***************************************************************************)
(* The callback of setTimeout(..., 30 * 60 * 1000): the deadline of call c. *)
(***************************************************************************)
SafetyTimeout(c) ==
  /\ timeoutPending[c]
  /\ published' = <<>>
  /\ timeoutPending' = [timeoutPending EXCEPT ![c] = FALSE]
  /\ IF StillRegistered(c)
       THEN
         /\ checkClosed' = ClearInterval(c)
         /\ closed' = [closed EXCEPT ![popup[c]] = TRUE]
         /\ activePaymentWindows' = MapDelete(activePaymentWindows, paymentId[c])
         /\ promise' = SettledPromises({c}, [d \in Calls |-> Rejected(ErrTimeout)])
         /\ settleCalls' = CountedSettleCalls({c})
       ELSE UNCHANGED << checkClosed, closed, activePaymentWindows, promise, settleCalls >>
  /\ UNCHANGED << eventListeners, listening, paymentId, popup,
                  lastPaymentReference >>

(***************************************************************************)
(* on, off                                                                 *)
(***************************************************************************)
On(event, callback) ==
  /\ published' = <<>>
  /\ IF callback = NotAFunction
       THEN UNCHANGED eventListeners   \* throws
       ELSE eventListeners' =
              Append(eventListeners, [event |-> event, callback |-> callback])
  /\ UNCHANGED << activePaymentWindows, listening, callVars, closed,
                  lastPaymentReference >>

Off(event, callback) ==
  /\ published' = <<>>
  /\ LET Kept(listener) == ~(listener.event = event /\ listener.callback = callback)
     IN  eventListeners' = SelectSeq(eventListeners, Kept)
  /\ UNCHANGED << activePaymentWindows, listening, callVars, closed,
                  lastPaymentReference >>

(***************************************************************************)
(* closeAllPaymentWindows, destroy                                         *)
(***************************************************************************)
\* window.closed of every handle after closeAllPaymentWindows: the windows of
\* the entries of the registry are closed
ClosedAfterCloseAll ==
  [w \in Handles |->
     closed[w] \/ \E k \in DOMAIN activePaymentWindows : activePaymentWindows[k].window = w]

CloseAllPaymentWindows ==
  /\ published' = <<>>
  /\ closed' = ClosedAfterCloseAll
  /\ activePaymentWindows' = EmptyMap
  /\ UNCHANGED << eventListeners, listening, callVars, lastPaymentReference >>

Destroy ==
  /\ published' = <<>>
  /\ closed' = ClosedAfterCloseAll
  /\ listening' = FALSE
  /\ eventListeners' = <<>>
  /\ activePaymentWindows' = EmptyMap
  /\ UNCHANGED << callVars, lastPaymentReference >>

(***************************************************************************)
(* The message listener: _setupMessageListener, _emitEvent and the three   *)
(* handlers.                                                               *)
(***************************************************************************)
\* (variant: the listener without its check of the origin)
OriginAcceptedAny(origin) == TRUE

\* event.origin.includes('venepagos')
OriginAccepted(origin) == \E i \in 1..Len(origin) : origin[i] = "venepagos"

\* _emitEvent(event, data): the callbacks invoked, in order, each with data.  A
\* callback that throws is caught, and the next one is invoked all the same.
Invocations(listeners, data) ==
  [i \in 1..Len(listeners) |-> [callback |-> listeners[i].callback, data |-> data]]
EmitEvent(event, data) ==
  LET Matches(listener) == listener.event = event
  IN  Invocations(SelectSeq(eventListeners, Matches), data)

\* a callback _emitEvent(event, ...) invokes calls closeAllPaymentWindows
ClosesAllInvoked(event) ==
  \E i \in 1..Len(eventListeners) :
    eventListeners[i] = [event |-> event, callback |-> ClosesAll]

\* (variant: the handlers settle the entries the registry had before _emitEvent)
RegistryBeforeEmit(event) == activePaymentWindows

\* this.activePaymentWindows and window.closed when _emitEvent(event, ...) has
\* returned: what the callbacks it invoked have left
RegistryAfterEmit(event) ==
  IF ClosesAllInvoked(event) THEN EmptyMap ELSE activePaymentWindows
ClosedAfterEmit(event) ==
  IF ClosesAllInvoked(event) THEN ClosedAfterCloseAll ELSE closed

\* the calls whose resolve and reject the entries of a registry hold
CallsIn(registry) == {registry[k].call : k \in DOMAIN registry}
RegisteredCalls == CallsIn(activePaymentWindows)

\* reading data.reference or data.error of a missing data throws a TypeError,
\* which ends the forEach and the message handler at the first entry
ReadOfDataThrows(registry, data) == ~data.present /\ registry # EmptyMap

\* this.activePaymentWindows.forEach(entry => { settle; delete }) of the three
\* handlers, where outcome is what the resolve or reject of an entry is given
SettleEveryEntry(registry, outcome) ==
  /\ promise' = SettledPromises(CallsIn(registry), [c \in Calls |-> outcome])
  /\ settleCalls' = CountedSettleCalls(CallsIn(registry))
  /\ activePaymentWindows' = EmptyMap

HandlePaymentSuccess(data) ==
  /\ published' = EmitEvent("success", data)
  /\ closed' = ClosedAfterEmit("success")
  /\ IF ReadOfDataThrows(RegistryAfterEmit("success"), data)
       THEN /\ activePaymentWindows' = RegistryAfterEmit("success")
            /\ UNCHANGED << promise, settleCalls >>
       ELSE SettleEveryEntry(RegistryAfterEmit("success"),
                             Resolved(data.reference, FALSE, data))

HandlePaymentError(data) ==
  /\ published' = EmitEvent("error", data)
  /\ closed' = ClosedAfterEmit("error")
  /\ IF ReadOfDataThrows(RegistryAfterEmit("error"), data)
       THEN /\ activePaymentWindows' = RegistryAfterEmit("error")
            /\ UNCHANGED << promise, settleCalls >>
       ELSE SettleEveryEntry(RegistryAfterEmit("error"),
              Rejected(IF Truthy(data.error) THEN data.error ELSE ErrDefault))

HandlePaymentCancel(data) ==
  /\ published' = EmitEvent("cancel", data)
  /\ closed' = ClosedAfterEmit("cancel")
  /\ SettleEveryEntry(RegistryAfterEmit("cancel"), Rejected(ErrCancelled))

\* messageHandler(event), with event.data = {type, data}
MessageHandler(origin, type, data) ==
  IF ~OriginAccepted(origin)
    THEN /\ published' = <<>>
         /\ UNCHANGED << promise, settleCalls, activePaymentWindows, closed >>
    ELSE CASE type = "PAYMENT_SUCCESS" -> HandlePaymentSuccess(data)
           [] type = "PAYMENT_ERROR" -> HandlePaymentError(data)
           [] type = "PAYMENT_CANCEL" -> HandlePaymentCancel(data)
           [] OTHER -> /\ published' = <<>>
                       /\ UNCHANGED << promise, settleCalls, activePaymentWindows,
                                       closed >>

\* A message event is dispatched on window: the handler runs while it is
\* registered (from the constructor to destroy).
Message(origin, type, data) ==
  /\ IF listening
       THEN MessageHandler(origin, type, data)
       ELSE /\ published' = <<>>
            /\ UNCHANGED << promise, settleCalls, activePaymentWindows, closed >>
  /\ UNCHANGED << eventListeners, listening, paymentId, popup, checkClosed,
                  timeoutPending, lastPaymentReference >>

(***************************************************************************)
(* The environment.                                                        *)
(***************************************************************************)
\* the user, or the payment page, closes window w
WindowCloses(w) ==
  /\ w \in Handles
  /\ ~closed[w]
  /\ closed' = [closed EXCEPT ![w] = TRUE]
  /\ published' = <<>>
  /\ UNCHANGED << engineVars, callVars, lastPaymentReference >>

\* a script of the page's origin runs localStorage.setItem('lastPaymentReference', v)
StoreReference(v) ==
  /\ lastPaymentReference # v
  /\ lastPaymentReference' = v
  /\ published' = <<>>
  /\ UNCHANGED << engineVars, callVars, closed >>

(***************************************************************************)
(* Several instances of VenePagosSDK in one page: the methods above, acting *)
(* on the fields of the instance they are called on.  The closures of a    *)
(* call capture the instance the call was made on.                         *)
(***************************************************************************)
\* (variant: the registry and the listeners are one for all the instances)
ThisShared(i) == 1

\* the object whose fields this.activePaymentWindows, this.eventListeners
\* the methods of instance i read and write: the constructor creates a Map
\* and an array for every instance
This(i) == i

\* this.activePaymentWindows and this.eventListeners of instance i
RegistryOf(i) == instances[This(i)].activePaymentWindows
ListenersOf(i) == instances[This(i)].eventListeners

InstanceOpenPaymentPopup(i, c, w, id) ==
  /\ c \notin Made
  /\ \A d \in Calls : d < c => d \in Made
  /\ w \in WindowOpenResults
  /\ published' = <<>>
  /\ engineOf' = [engineOf EXCEPT ![c] = i]
  /\ IF w = NoPopup
       THEN
         /\ promise' = [promise EXCEPT ![c] = BlockedOutcome]
         /\ settleCalls' = [settleCalls EXCEPT ![c] = @ + 1]
         /\ UNCHANGED << instances, paymentId, popup, checkClosed,
                         timeoutPending, closed >>
       ELSE
         /\ closed' = IF w \in Handles THEN closed ELSE Append(closed, FALSE)
         /\ promise' = [promise EXCEPT ![c] = Pending]
         /\ paymentId' = [paymentId EXCEPT ![c] = id]
         /\ popup' = [popup EXCEPT ![c] = w]
         /\ instances' =
              [instances EXCEPT ![This(i)].activePaymentWindows =
                 MapSet(RegistryOf(i), id, [window |-> w, call |-> c])]
         /\ checkClosed' = [checkClosed EXCEPT ![c] = TRUE]
         /\ timeoutPending' = [timeoutPending EXCEPT ![c] = TRUE]
         /\ UNCHANGED settleCalls
  /\ UNCHANGED << engineVars, lastPaymentReference >>

\* the callback of setInterval of call c, made on instance engineOf[c]
InstanceCheckClosedTick(c) ==
  /\ checkClosed[c]
  /\ published' = <<>>
  /\ IF closed[popup[c]]
       THEN
         /\ checkClosed' = ClearInterval(c)
         /\ IF MapHas(RegistryOf(engineOf[c]), paymentId[c])
              THEN
                /\ instances' =
                     [instances EXCEPT ![This(engineOf[c])].activePaymentWindows =
                        MapDelete(RegistryOf(engineOf[c]), paymentId[c])]
                /\ settleCalls' = CountedSettleCalls({c})
                /\ IF Truthy(lastPaymentReference)
                     THEN
                       /\ lastPaymentReference' = RemoveItem
                       /\ promise' =
                            SettledPromises({c},
                              [d \in Calls |-> Resolved(lastPaymentReference, TRUE, NoData)])
                     ELSE
                       /\ promise' =
                            SettledPromises({c}, [d \in Calls |-> Rejected(ErrClosedByUser)])
                       /\ UNCHANGED lastPaymentReference
              ELSE UNCHANGED << instances, settleCalls, promise, lastPaymentReference >>
       ELSE UNCHANGED << checkClosed, instances, settleCalls, promise,
                         lastPaymentReference >>
  /\ UNCHANGED << engineVars, engineOf, paymentId, popup, timeoutPending, closed >>

\* the callback of setTimeout of call c, made on instance engineOf[c]
InstanceSafetyTimeout(c) ==
  /\ timeoutPending[c]
  /\ published' = <<>>
  /\ timeoutPending' = [timeoutPending EXCEPT ![c] = FALSE]
  /\ IF MapHas(RegistryOf(engineOf[c]), paymentId[c])
       THEN
         /\ checkClosed' = ClearInterval(c)
         /\ closed' = [closed EXCEPT ![popup[c]] = TRUE]
         /\ instances' =
              [instances EXCEPT ![This(engineOf[c])].activePaymentWindows =
                 MapDelete(RegistryOf(engineOf[c]), paymentId[c])]
         /\ promise' = SettledPromises({c}, [d \in Calls |-> Rejected(ErrTimeout)])
         /\ settleCalls' = CountedSettleCalls({c})
       ELSE UNCHANGED << checkClosed, closed, instances, promise, settleCalls >>
  /\ UNCHANGED << engineVars, engineOf, paymentId, popup, lastPaymentReference >>

InstanceOn(i, event, callback) ==
  /\ published' = <<>>
  /\ IF callback = NotAFunction
       THEN UNCHANGED instances   \* throws
       ELSE instances' =
              [instances EXCEPT ![This(i)].eventListeners =
                 Append(ListenersOf(i), [event |-> event, callback |-> callback])]
  /\ UNCHANGED << engineVars, engineOf, callVars, closed, lastPaymentReference >>

InstanceOff(i, event, callback) ==
  /\ published' = <<>>
  /\ LET Kept(listener) == ~(listener.event = event /\ listener.callback = callback)
     IN  instances' =
           [instances EXCEPT ![This(i)].eventListeners = SelectSeq(ListenersOf(i), Kept)]
  /\ UNCHANGED << engineVars, engineOf, callVars, closed, lastPaymentReference >>

\* window.closed of every handle after closeAllPaymentWindows of instance i
ClosedAfterCloseAllOf(i) ==
  [w \in Handles |->
     closed[w] \/ \E k \in DOMAIN RegistryOf(i) : RegistryOf(i)[k].window = w]

InstanceCloseAllPaymentWindows(i) ==
  /\ published' = <<>>
  /\ closed' = ClosedAfterCloseAllOf(i)
  /\ instances' = [instances EXCEPT ![This(i)].activePaymentWindows = EmptyMap]
  /\ UNCHANGED << engineVars, engineOf, callVars, lastPaymentReference >>

InstanceDestroy(i) ==
  /\ published' = <<>>
  /\ closed' = ClosedAfterCloseAllOf(i)
  /\ instances' =
       [instances EXCEPT ![This(i)] =
          [activePaymentWindows |-> EmptyMap, eventListeners |-> <<>>,
           listening |-> FALSE]]
  /\ UNCHANGED << engineVars, engineOf, callVars, lastPaymentReference >>

(***************************************************************************)
(* Specifications.                                                         *)
(***************************************************************************)
\* Sessions, timers, messages and teardown; no listener is registered.
Next ==
  \/ \E c \in Calls, w \in 0..MaxCalls, id \in GeneratePaymentId :
       OpenPaymentPopup(c, w, id) /\ UNCHANGED << received, instanceVars >>
  \/ \E c \in Calls : CheckClosedTick(c) /\ UNCHANGED << received, instanceVars >>
  \/ \E c \in Calls : SafetyTimeout(c) /\ UNCHANGED << received, instanceVars >>
  \/ CloseAllPaymentWindows /\ UNCHANGED << received, instanceVars >>
  \/ Destroy /\ UNCHANGED << received, instanceVars >>
  \/ \E o \in Origins, t \in MessageTypes, d \in DataBodies :
       Message(o, t, d) /\ UNCHANGED << received, instanceVars >>
  \/ \E w \in 1..MaxCalls : WindowCloses(w) /\ UNCHANGED << received, instanceVars >>
  \/ \E v \in StoredValues : StoreReference(v) /\ UNCHANGED << received, instanceVars >>

Spec == Init /\ [][Next]_vars

\* Listeners, messages and the sessions the messages settle.
NextBus ==
  \/ \E c \in Calls, w \in 0..MaxCalls, id \in GeneratePaymentId :
       OpenPaymentPopup(c, w, id) /\ received' = NoMessage /\ UNCHANGED instanceVars
  \/ \E e \in EventNames, cb \in Callbacks \cup {NotAFunction} :
       Len(eventListeners) < MaxListeners /\ On(e, cb) /\ received' = NoMessage /\ UNCHANGED instanceVars
  \/ \E e \in EventNames, cb \in Callbacks : Off(e, cb) /\ received' = NoMessage /\ UNCHANGED instanceVars
  \/ \E o \in Origins, t \in MessageTypes, d \in DataBodies :
       Message(o, t, d) /\ received' = MessageEvent(o, t) /\ UNCHANGED instanceVars

SpecBus == Init /\ [][NextBus]_vars

\* Sessions that end by their window being closed or by their deadline: no
\* message, no stored reference, no teardown.  Listeners may be registered.
NextManualClose ==
  \/ \E c \in Calls, w \in 0..MaxCalls, id \in GeneratePaymentId :
       OpenPaymentPopup(c, w, id) /\ UNCHANGED << received, instanceVars >>
  \/ \E c \in Calls : CheckClosedTick(c) /\ UNCHANGED << received, instanceVars >>
  \/ \E c \in Calls : SafetyTimeout(c) /\ UNCHANGED << received, instanceVars >>
  \/ \E w \in 1..MaxCalls : WindowCloses(w) /\ UNCHANGED << received, instanceVars >>
  \/ \E e \in EventNames, cb \in Callbacks \cup {NotAFunction} :
       Len(eventListeners) < MaxListeners /\ On(e, cb) /\ UNCHANGED << received, instanceVars >>
  \/ \E e \in EventNames, cb \in Callbacks : Off(e, cb) /\ UNCHANGED << received, instanceVars >>

SpecManualClose == Init /\ [][NextManualClose]_vars

\* on, off and _emitEvent with several listeners, the sessions the messages
\* settle, and destroy.
NextPublish ==
  \/ \E c \in Calls, w \in 0..MaxCalls, id \in GeneratePaymentId :
       Cardinality(Made) < MaxSessions /\ OpenPaymentPopup(c, w, id) /\ received' = NoMessage /\ UNCHANGED instanceVars
  \/ \E e \in EventNames, cb \in Callbacks \cup {NotAFunction} :
       Len(eventListeners) < MaxSubscriptions /\ On(e, cb) /\ received' = NoMessage /\ UNCHANGED instanceVars
  \/ \E e \in EventNames, cb \in Callbacks : Off(e, cb) /\ received' = NoMessage /\ UNCHANGED instanceVars
  \/ Destroy /\ received' = NoMessage /\ UNCHANGED instanceVars
  \/ \E o \in Origins, t \in MessageTypes, d \in DataBodies :
       Message(o, t, d) /\ received' = MessageEvent(o, t) /\ UNCHANGED instanceVars

SpecPublish == Init /\ [][NextPublish]_vars

\* The sessions and their timers when Date.now() and Math.random() may return
\* what they returned before: the identifier is any of PaymentIds.
NextIdentifiers ==
  \/ \E c \in Calls, w \in 0..MaxCalls, id \in PaymentIds :
       OpenPaymentPopup(c, w, id) /\ UNCHANGED << received, instanceVars >>
  \/ \E c \in Calls : CheckClosedTick(c) /\ UNCHANGED << received, instanceVars >>
  \/ \E c \in Calls : SafetyTimeout(c) /\ UNCHANGED << received, instanceVars >>
  \/ \E w \in 1..MaxCalls : WindowCloses(w) /\ UNCHANGED << received, instanceVars >>

SpecIdentifiers == Init /\ [][NextIdentifiers]_vars

\* Several instances in one page: their sessions, timers, listeners and
\* teardown, the windows and the slot of localStorage they share.
NextInstances ==
  \/ \E i \in Instances, c \in Calls, w \in 0..MaxCalls, id \in GeneratePaymentId :
       InstanceOpenPaymentPopup(i, c, w, id) /\ UNCHANGED received
  \/ \E c \in Calls : InstanceCheckClosedTick(c) /\ UNCHANGED received
  \/ \E c \in Calls : InstanceSafetyTimeout(c) /\ UNCHANGED received
  \/ \E i \in Instances :
       /\ Len(ListenersOf(i)) < MaxListeners
       /\ InstanceOn(i, "success", "cbReturns") /\ UNCHANGED received
  \/ \E i \in Instances : InstanceOff(i, "success", "cbReturns") /\ UNCHANGED received
  \/ \E i \in Instances : InstanceCloseAllPaymentWindows(i) /\ UNCHANGED received
  \/ \E i \in Instances : InstanceDestroy(i) /\ UNCHANGED received
  \/ \E w \in 1..MaxCalls : WindowCloses(w) /\ UNCHANGED << received, instanceVars >>

SpecInstances == Init /\ [][NextInstances]_vars

\* Messages while a listener that calls closeAllPaymentWindows may be
\* registered.
NextReentrant ==
  \/ \E c \in Calls, w \in 0..MaxCalls, id \in GeneratePaymentId :
       OpenPaymentPopup(c, w, id) /\ received' = NoMessage /\ UNCHANGED instanceVars
  \/ \E e \in {"success", "cancel"}, cb \in {"cbReturns", ClosesAll} :
       /\ Len(eventListeners) < MaxListeners
       /\ On(e, cb) /\ received' = NoMessage /\ UNCHANGED instanceVars
  \/ \E e \in {"success", "cancel"}, cb \in {"cbReturns", ClosesAll} :
       Off(e, cb) /\ received' = NoMessage /\ UNCHANGED instanceVars
  \/ \E o \in Origins, t \in MessageTypes, d \in DataBodies :
       Message(o, t, d) /\ received' = MessageEvent(o, t) /\ UNCHANGED instanceVars

SpecReentrant == Init /\ [][NextReentrant]_vars

(***************************************************************************)
(* Properties.                                                             *)
(***************************************************************************)
\* calls whose window was opened: a session was created for them
Sessions == {c \in Calls : popup[c] # NoPopup}
\* a session is pending while neither its resolve nor its reject was invoked
IsPending(c) == promise[c].state = "pending"
IsSettled(c) == promise[c].state \in {"resolved", "rejected"}

\* C1: the resolve and reject of a call of openPaymentPopup are invoked at
\* most once in total, whatever the order of poll ticks, deadlines, messages,
\* closeAllPaymentWindows and destroy.
C1_SettledAtMostOnce == \A c \in Calls : settleCalls[c] <= 1

\* A session a message resolved, whose deadline fired and whose poll found the
\* window closed afterwards: both later sources left it alone.
C1_Witness ==
  \E c \in Sessions :
    /\ promise[c].state = "resolved" /\ ~promise[c].closedManually
    /\ settleCalls[c] = 1
    /\ ~timeoutPending[c] /\ ~checkClosed[c]

\* C2: a session is in the registry if and only if it is pending.
C2_RegisteredIffPending ==
  \A c \in Calls : (c \in RegisteredCalls) <=> IsPending(c)

\* C3: closeAllPaymentWindows and destroy close every tracked window that is
\* open, settle every pending session within the call and leave the registry
\* empty.
C3_TeardownSettlesPending ==
  [][ (CloseAllPaymentWindows \/ Destroy) =>
        /\ \A c \in Calls : IsPending(c) => promise'[c].state \in {"resolved", "rejected"}
        /\ \A c \in RegisteredCalls : closed'[popup[c]]
        /\ activePaymentWindows' = EmptyMap ]_vars

\* C4: a PAYMENT_SUCCESS message of an accepted origin that reaches the
\* listener resolves every pending session as completed, with the reference
\* and the data of the message, and leaves the registry empty.
C4_SuccessSettlesEveryPending ==
  [][ \A o \in Origins, d \in DataBodies :
        (listening /\ OriginAccepted(o) /\ Message(o, "PAYMENT_SUCCESS", d)) =>
          /\ \A c \in Calls : IsPending(c) => promise'[c] = Resolved(d.reference, FALSE, d)
          /\ activePaymentWindows' = EmptyMap ]_vars

\* an origin none of whose labels is the provider's
ForeignOrigin(origin) == \A i \in DOMAIN origin : origin[i] # "venepagos"

DeadlineFires(c) == timeoutPending[c] /\ ~timeoutPending'[c]

\* C6: when the deadline of a pending session fires, the poll is stopped, the
\* window is closed, the session leaves the registry and is rejected with the
\* timeout error; its poll does not run afterwards.
C6_DeadlineTimesOutPending ==
  [][ \A c \in Calls :
        (DeadlineFires(c) /\ IsPending(c)) =>
          /\ promise'[c] = Rejected(ErrTimeout)
          /\ ~checkClosed'[c]
          /\ closed'[popup[c]]
          /\ paymentId[c] \notin DOMAIN activePaymentWindows' ]_vars

\* C7: once the windows of all N sessions were closed by hand and every poll
\* has seen it (no message, no stored reference, no teardown, no deadline
\* reached first), each of the N sessions was rejected once, as closed by
\* the user, and the registry is empty.
C7_ManualCloseRejectsAll ==
  ( /\ \A c \in Sessions : ~checkClosed[c]
    /\ \A c \in Sessions : promise[c] # Rejected(ErrTimeout) )
  => /\ \A c \in Sessions : promise[c] = Rejected(ErrClosedByUser) /\ settleCalls[c] = 1
     /\ activePaymentWindows = EmptyMap

\* N = MaxCalls sessions, all closed by hand and all rejected by their polls.
C7_Witness ==
  /\ Sessions = Calls
  /\ \A c \in Calls : promise[c] = Rejected(ErrClosedByUser) /\ ~checkClosed[c]
  /\ activePaymentWindows = EmptyMap

\* the poll of call c finds its window closed in this step
PollDetectsClosure(c) ==
  /\ checkClosed[c] /\ ~checkClosed'[c]
  /\ timeoutPending'[c] = timeoutPending[c]

\* C8: when the poll of a pending session finds the window closed and the
\* slot 'lastPaymentReference' holds a reference, the session is resolved
\* with that reference and closedManually, and the slot is cleared; no other
\* session is settled by the step; with no reference in the slot the session
\* is rejected as closed by the user.
C8_StoredReferenceUpgradesOne ==
  [][ \A c \in Calls :
        (PollDetectsClosure(c) /\ IsPending(c)) =>
          /\ IF Truthy(lastPaymentReference)
               THEN /\ promise'[c] = Resolved(lastPaymentReference, TRUE, NoData)
                    /\ lastPaymentReference' = Undefined
               ELSE promise'[c] = Rejected(ErrClosedByUser)
          /\ \A d \in Calls \ {c} : promise'[d] = promise[d] ]_vars

\* C9: the poll and the deadline of a session are cancelled once the session
\* is settled: no callback of a settled session is left to run.
C9_TimersCancelledOnSettle ==
  \A c \in Sessions : IsSettled(c) => ~checkClosed[c] /\ ~timeoutPending[c]

\* call c of openPaymentPopup is made in this step and window.open gave null
BlockedCall(c) ==
  promise[c].state = "idle" /\ promise'[c].state # "idle" /\ popup'[c] = NoPopup

\* C10: a call whose popup is blocked rejects its promise within the call,
\* adds nothing to the registry and starts neither timer.
C10_BlockedPopupRejects ==
  [][ \A c \in Calls :
        BlockedCall(c) =>
          /\ promise'[c] = Rejected(ErrPopupBlocked)
          /\ settleCalls'[c] = 1
          /\ activePaymentWindows' = activePaymentWindows
          /\ ~checkClosed'[c] /\ ~timeoutPending'[c] ]_vars

\* The second call was blocked and rejected while the session of the first
\* was pending in the registry.
C10_Witness ==
  /\ promise[2] = Rejected(ErrPopupBlocked)
  /\ popup[2] = NoPopup /\ ~checkClosed[2] /\ ~timeoutPending[2]
  /\ RegisteredCalls = {1} /\ IsPending(1)


\* the sequence s without its i-th element
WithoutIndex(s, i) == [j \in 1..(Len(s) - 1) |-> IF j < i THEN s[j] ELSE s[j + 1]]

\* C11: a call of off that removes subscriptions removes exactly one, the
\* first that matches the pair: of k equal subscriptions k - 1 remain, and the
\* other subscriptions keep their places.
C11_OffRemovesExactlyOne ==
  [][ Len(eventListeners') < Len(eventListeners) =>
        \E i \in 1..Len(eventListeners) :
          /\ \A j \in 1..(i - 1) : eventListeners[j] # eventListeners[i]
          /\ eventListeners' = WithoutIndex(eventListeners, i) ]_vars

\* the event a message type is published as, and the state of a promise the
\* message type settles a session to
RecognisedTypes == {"PAYMENT_SUCCESS", "PAYMENT_ERROR", "PAYMENT_CANCEL"}
EventOfType(type) ==
  CASE type = "PAYMENT_SUCCESS" -> "success"
    [] type = "PAYMENT_ERROR" -> "error"
    [] type = "PAYMENT_CANCEL" -> "cancel"
OutcomeOfType(type) == IF type = "PAYMENT_SUCCESS" THEN "resolved" ELSE "rejected"
\* the callbacks subscribed to event, in the order of their registration
HandlersOf(event) ==
  LET Subscribed(listener) == listener.event = event
      subscriptions == SelectSeq(eventListeners, Subscribed)
  IN  [i \in 1..Len(subscriptions) |-> subscriptions[i].callback]
\* a message of a recognised type and an accepted origin is handled in the step
Notified ==
  /\ listening
  /\ received' # NoMessage
  /\ received'.type \in RecognisedTypes
  /\ \E i \in 1..Len(received'.origin) : received'.origin[i] = "venepagos"

\* C12: a notification invokes the handlers subscribed to its event, all of
\* them and no other, in the order of their registration, whether or not one
\* of them throws, and the sessions pending at the notification are settled
\* with the outcome of the notification.
C12_PublishInOrderIsolated ==
  [][ Notified =>
        /\ [i \in 1..Len(published') |-> published'[i].callback]
             = HandlersOf(EventOfType(received'.type))
        /\ \A c \in Calls :
             IsPending(c) => promise'[c].state = OutcomeOfType(received'.type) ]_vars

\* C13: a message of an accepted origin and a recognised type that carries no
\* data is handled like any other: its event is published, every pending
\* session is settled with the outcome of the type, and the registry is left
\* empty.
C13_MissingDataTolerated ==
  [][ \A o \in Origins, t \in RecognisedTypes :
        ( /\ listening /\ OriginAccepted(o)
          /\ Message(o, t, NoData) /\ received' = MessageEvent(o, t) ) =>
          /\ published' = EmitEvent(EventOfType(t), NoData)
          /\ \A c \in Calls : IsPending(c) => promise'[c].state = OutcomeOfType(t)
          /\ activePaymentWindows' = EmptyMap ]_vars

\* the promise of a session a notification of the type settles: completed with
\* the reference of the data, rejected with the error detail of the provider,
\* or rejected as cancelled by the user
RoutedOutcome(type, data) ==
  CASE type = "PAYMENT_SUCCESS" -> Resolved(data.reference, FALSE, data)
    [] type = "PAYMENT_ERROR" ->
         Rejected(IF data.error # Undefined THEN data.error ELSE ErrDefault)
    [] type = "PAYMENT_CANCEL" -> Rejected(ErrCancelled)

\* C14: a message of an accepted origin is routed by its type: a recognised
\* type publishes its event, sessions pending or not, and settles every
\* pending session with the outcome of the type; any other type publishes
\* nothing, settles nothing and leaves the registry as it is.
C14_RoutedByType ==
  [][ \A o \in Origins, t \in MessageTypes, d \in DataBodies :
        ( /\ listening /\ OriginAccepted(o)
          /\ Message(o, t, d) /\ received' = MessageEvent(o, t) ) =>
          IF t \in RecognisedTypes
            THEN /\ published' = EmitEvent(EventOfType(t), d)
                 /\ \A c \in Calls : IsPending(c) => promise'[c] = RoutedOutcome(t, d)
            ELSE /\ published' = <<>>
                 /\ promise' = promise
                 /\ activePaymentWindows' = activePaymentWindows ]_vars

\* C15: every session whose window was opened is settled at the latest by its
\* deadline: once the deadline timer of the session has fired, its promise is
\* resolved or rejected, and it was settled once, whatever messages, closures
\* and teardown calls occurred meanwhile.
C15_SettledByDeadline ==
  \A c \in Sessions : ~timeoutPending[c] => IsSettled(c) /\ settleCalls[c] = 1

\* C16: destroy leaves the engine without pending sessions, without
\* subscriptions and without its message listener, and a message delivered
\* after destroy, of any type and origin, invokes no subscriber, settles no
\* session and changes nothing of the engine.
C16_DestroyedEngineInert ==
  [][ /\ Destroy =>
           /\ \A c \in Calls : ~IsPending(c)'
           /\ eventListeners' = <<>>
           /\ ~listening'
      /\ (~listening /\ received' # NoMessage) =>
           /\ published' = <<>>
           /\ UNCHANGED << promise, settleCalls, engineVars >> ]_vars

\* call c of openPaymentPopup is made in this step and registers a session
OpenedCall(c) ==
  promise[c].state = "idle" /\ promise'[c].state # "idle" /\ popup'[c] # NoPopup

\* C17: the identifier of a new session was given to no session of the
\* engine before, so that registering the session overwrites the entry of no
\* session in the registry.
C17_IdentifiersNeverReused ==
  [][ \A c \in Calls :
        OpenedCall(c) =>
          /\ \A d \in Sessions : paymentId'[c] # paymentId[d]
          /\ \A k \in DOMAIN activePaymentWindows :
               activePaymentWindows'[k] = activePaymentWindows[k] ]_vars

\* the step is an operation of instance i: a call of one of its methods, or a
\* timer of a session opened on it
InstanceOperation(i) ==
  \/ \E c \in Calls \ Made, w \in 0..MaxCalls, id \in GeneratePaymentId :
       InstanceOpenPaymentPopup(i, c, w, id)
  \/ \E c \in Calls : engineOf[c] = i /\ InstanceCheckClosedTick(c)
  \/ \E c \in Calls : engineOf[c] = i /\ InstanceSafetyTimeout(c)
  \/ InstanceOn(i, "success", "cbReturns")
  \/ InstanceOff(i, "success", "cbReturns")
  \/ InstanceCloseAllPaymentWindows(i)
  \/ InstanceDestroy(i)

\* C18: an operation of one instance (opening a session, on, off, a timer of
\* one of its sessions, closeAllPaymentWindows, destroy) leaves the registry
\* and the listeners of every other instance as they are, and settles no
\* session of another instance: a step that changes the registry or the
\* listeners of instance j, or settles one of its sessions, is an operation
\* of no other instance.
C18_InstancesShareNoState ==
  [][ \A j \in Instances :
        ( \/ instances'[j] # instances[j]
          \/ \E c \in Calls :
               /\ engineOf[c] = j
               /\ promise'[c] # promise[c] \/ settleCalls'[c] # settleCalls[c] ) =>
          \A i \in Instances \ {j} : ~InstanceOperation(i) ]_vars

\* Both instances have a listener, a session of the one was timed out by its
\* deadline, and the session of the other is still registered and pending.
C18_Witness ==
  \E c, d \in Sessions :
    /\ engineOf[c] = 1 /\ engineOf[d] = 2
    /\ promise[c] = Rejected(ErrTimeout)
    /\ IsPending(d) /\ MapHas(instances[2].activePaymentWindows, paymentId[d])
    /\ instances[1].eventListeners # <<>> /\ instances[2].eventListeners # <<>>

\* the entry of the session of call c is not in the registry
Unregistered(c) == paymentId[c] \notin DOMAIN activePaymentWindows

\* C19: a timer that fires for a session whose entry has left the registry
\* does nothing to it: the deadline closes no window and invokes neither
\* resolve nor reject, the poll that finds the window closed only stops
\* itself and leaves the slot 'lastPaymentReference' alone, and both leave the
\* registry as it is.
C19_StaleTimersDoNothing ==
  [][ \A c \in Calls :
        /\ (DeadlineFires(c) /\ Unregistered(c)) =>
             /\ closed' = closed
             /\ promise' = promise /\ settleCalls' = settleCalls
             /\ activePaymentWindows' = activePaymentWindows
        /\ (PollDetectsClosure(c) /\ Unregistered(c)) =>
             /\ promise' = promise /\ settleCalls' = settleCalls
             /\ activePaymentWindows' = activePaymentWindows
             /\ lastPaymentReference' = lastPaymentReference ]_vars

\* The deadline of a cancelled session has fired and its window is still
\* open, and the poll of another cancelled session has stopped on finding its
\* window closed while a reference was stored, which is still there.
C19_Witness ==
  \E c, d \in Sessions :
    /\ promise[c] = Rejected(ErrCancelled) /\ settleCalls[c] = 1
    /\ ~timeoutPending[c] /\ ~closed[popup[c]]
    /\ promise[d] = Rejected(ErrCancelled) /\ settleCalls[d] = 1
    /\ ~checkClosed[d] /\ timeoutPending[d] /\ closed[popup[d]]
    /\ Truthy(lastPaymentReference)

\* a callback the task has invoked has called closeAllPaymentWindows
ClosedAllWhilePublishing(invoked) ==
  \E i \in 1..Len(invoked) : invoked[i].callback = ClosesAll

\* C20: a notification publishes its event before it settles.  The sessions
\* in the registry when the message arrives are still there and unsettled
\* while the subscribers run, so that a subscriber that calls
\* closeAllPaymentWindows closes their windows and the notification settles
\* none of them; and the notification settles only sessions that are in the
\* registry when the subscribers have returned.
C20_PublicationPrecedesSettlement ==
  [][ Notified =>
        /\ ClosedAllWhilePublishing(published') =>
             \A c \in RegisteredCalls :
               /\ closed'[popup[c]]
               /\ promise'[c] = promise[c] /\ settleCalls'[c] = settleCalls[c]
        /\ \A c \in Calls :
             promise'[c] # promise[c] =>
               c \in RegisteredCalls /\ ~ClosedAllWhilePublishing(published') ]_vars

\* A notification has just invoked a subscriber that called
\* closeAllPaymentWindows: the window of a session is closed, the registry is
\* empty and the session is still pending.
C20_Witness ==
  /\ received # NoMessage
  /\ ClosedAllWhilePublishing(published)
  /\ activePaymentWindows = EmptyMap
  /\ \E c \in Sessions : IsPending(c) /\ closed[popup[c]] /\ settleCalls[c] = 0

=============================================================================
